---- MODULE Spec2Model ----
(***************************************************************************)
(* Model of docs/sphinxext/edit_on_bitbucket.py: the Sphinx extension that *)
(* adds "edit on bitbucket" links to a document tree.                      *)
(*                                                                         *)
(* Python strings that the code inspects or concatenates (paths, roots,    *)
(* module names, regular expressions, URLs) are sequences of one-character *)
(* strings.  Message strings, which the code only copies, are TLA+ strings.*)
(* A document tree is a sequence of node records; a node's identity is its *)
(* index, the document node is index 1, and `children` lists identities.   *)
(***************************************************************************)
EXTENDS Integers, Sequences, FiniteSets, TLC

\* Number of doctree_read invocations explored on one document tree.
MaxCalls == 3

(***************************************************************************)
(* String literals                                                         *)
(***************************************************************************)
REQUIRED == <<"R","E","Q","U","I","R","E","D">>
s_lib == <<"l","i","b">>
s_doc == <<"d","o","c">>
s_skip == <<"_",".","*">>
s_http == <<"h","t","t","p",":","/","/","b","i","t","b","u","c","k","e","t",".","o","r","g","/">>
s_srctip == <<"/","s","r","c","/","t","i","p","/">>
s_py == <<".","p","y">>
s_cl == <<"#","c","l","-">>
s_dotdot == <<".",".">>
Digits == <<"0","1","2","3","4","5","6","7","8","9">>

(***************************************************************************)
(* Python string primitives used by the module                             *)
(***************************************************************************)
\* str.endswith('/')
EndsWithSlash(s) == Len(s) > 0 /\ s[Len(s)] = "/"

\* str.split(sep): 'a..b' -> ['a', '', 'b'], '' -> ['']
RECURSIVE SplitAcc(_, _, _, _)
SplitAcc(s, sep, cur, acc) ==
    IF s = <<>> THEN Append(acc, cur)
    ELSE IF Head(s) = sep THEN SplitAcc(Tail(s), sep, <<>>, Append(acc, cur))
    ELSE SplitAcc(Tail(s), sep, Append(cur, Head(s)), acc)

Split(s, sep) == SplitAcc(s, sep, <<>>, <<>>)

\* sep.join(parts)
RECURSIVE Join(_, _)
Join(parts, sep) ==
    IF parts = <<>> THEN <<>>
    ELSE IF Len(parts) = 1 THEN parts[1]
    ELSE parts[1] \o <<sep>> \o Join(Tail(parts), sep)

\* Variant: the module name is used as it is
ReplaceDots_Identity(s) == s

\* modname.replace('.', '/')
ReplaceDots(s) == [i \in 1..Len(s) |-> IF s[i] = "." THEN "/" ELSE s[i]]

\* '%d' % n for n >= 0
RECURSIVE Decimal(_)
Decimal(n) ==
    IF n < 10 THEN <<Digits[n + 1]>>
    ELSE Decimal(n \div 10) \o <<Digits[(n % 10) + 1]>>

\* re.match(pattern, s): the pattern must match at the start of s.  Patterns
\* are built from literal characters, '.' and a postfix '*'.
RECURSIVE ReMatch(_, _)
ReMatch(p, s) ==
    IF p = <<>> THEN TRUE
    ELSE IF Len(p) >= 2 /\ p[2] = "*"
         THEN \/ ReMatch(Tail(Tail(p)), s)
              \/ /\ s # <<>>
                 /\ (p[1] = "." \/ p[1] = s[1])
                 /\ ReMatch(p, Tail(s))
    ELSE /\ s # <<>>
         /\ (p[1] = "." \/ p[1] = s[1])
         /\ ReMatch(Tail(p), Tail(s))

\* Path components of a normalised absolute path: [x for x in p.split('/') if x]
PathList(p) == SelectSeq(Split(p, "/"), LAMBDA x : x # <<>>)

\* len(os.path.commonprefix([a, b])) on component lists
RECURSIVE CommonLen(_, _)
CommonLen(a, b) ==
    IF a = <<>> \/ b = <<>> \/ Head(a) # Head(b) THEN 0
    ELSE 1 + CommonLen(Tail(a), Tail(b))

\* os.path.relpath(path, start) for normalised absolute POSIX paths
RelPath(path, start) ==
    LET start_list == PathList(start)
        path_list == PathList(path)
        i == CommonLen(start_list, path_list)
        rel_list == [k \in 1..(Len(start_list) - i) |-> s_dotdot]
                    \o SubSeq(path_list, i + 1, Len(path_list))
    IN  IF rel_list = <<>> THEN <<".">> ELSE Join(rel_list, "/")

(***************************************************************************)
(* The Python runtime the extension introspects: importable modules, their *)
(* attributes and the source line of each object.  Objects are named by    *)
(* strings; "None" is Python's None.                                       *)
(*   module m   : f (def, line 7), C (class, line 12; method g, line 15),  *)
(*                x (an int: inspect.getsourcelines raises TypeError)      *)
(*   package p  : submodule m (a module: getsourcelines gives line 0)      *)
(*   module p.m : f (def, line 3)                                          *)
(* Every other module name fails to import.                                *)
(***************************************************************************)
None == "None"

\* __import__(modname); sys.modules[modname]
SysModules(modname) ==
    IF modname = <<"m">> THEN "mod m"
    ELSE IF modname = <<"p">> THEN "mod p"
    ELSE IF modname = <<"p", ".", "m">> THEN "mod p.m"
    ELSE None

\* getattr(obj, part); None stands for the AttributeError
GetAttr(obj, part) ==
    IF obj = "mod m" /\ part = <<"f">> THEN "m.f"
    ELSE IF obj = "mod m" /\ part = <<"C">> THEN "m.C"
    ELSE IF obj = "mod m" /\ part = <<"x">> THEN "m.x"
    ELSE IF obj = "m.C" /\ part = <<"g">> THEN "m.C.g"
    ELSE IF obj = "mod p" /\ part = <<"m">> THEN "mod p.m"
    ELSE IF obj = "mod p.m" /\ part = <<"f">> THEN "p.m.f"
    ELSE None

\* inspect.getsourcelines(obj)[1]; -1 stands for the exception it raises
GetSourceLine(obj) ==
    IF obj = "m.f" THEN 7
    ELSE IF obj = "m.C" THEN 12
    ELSE IF obj = "m.C.g" THEN 15
    ELSE IF obj = "p.m.f" THEN 3
    ELSE IF obj \in {"mod m", "mod p", "mod p.m"} THEN 0
    ELSE -1

\* for part in name.split('.'): obj = getattr(obj, part)
RECURSIVE ResolveParts(_, _)
ResolveParts(obj, parts) ==
    IF obj = None THEN None
    ELSE IF parts = <<>> THEN obj
    ELSE ResolveParts(GetAttr(obj, Head(parts)), Tail(parts))

\* import_object(modname, name): the object, or None when anything fails
import_object(modname, name) ==
    ResolveParts(SysModules(modname), Split(name, "."))

\* anchor = None; '#cl-%d' % lineno when obj is found and has source lines.
\* The empty string stands for None: both are false in `if anchor:`.
Anchor(obj) ==
    IF obj # None /\ GetSourceLine(obj) >= 0
    THEN s_cl \o Decimal(GetSourceLine(obj))
    ELSE <<>>

(***************************************************************************)
(* Document tree                                                           *)
(***************************************************************************)
Root == 1

Elem(tag) ==
    [tag |-> tag, classes |-> {}, domain |-> "", module |-> <<>>,
     fullname |-> <<>>, expr |-> "", refuri |-> <<>>, reftitle |-> "",
     text |-> "", format |-> "", source |-> <<>>, children |-> <<>>]

\* Variant: the child is inserted in front
AppendChild_Prepend(t, parent, child) ==
    [t EXCEPT ![parent].children = <<child>> \o @]

\* parent += child
AppendChild(t, parent, child) ==
    [t EXCEPT ![parent].children = Append(@, child)]

\* node.update_basic_atts({'classes': [cls]})
AddClass(t, n, cls) == [t EXCEPT ![n].classes = @ \cup {cls}]

\* Node.traverse(): the node and its descendants in document order
RECURSIVE Traverse(_, _)
RECURSIVE TraverseAll(_, _)
Traverse(t, n) == <<n>> \o TraverseAll(t, t[n].children)
TraverseAll(t, kids) ==
    IF kids = <<>> THEN <<>>
    ELSE Traverse(t, Head(kids)) \o TraverseAll(t, Tail(kids))

\* source_root / doc_root normalisation: add a trailing '/' to a non-empty
\* root that lacks one
AddSlash(root) ==
    IF root # <<>> /\ ~EndsWithSlash(root) THEN root \o <<"/">> ELSE root

\* url = 'http://bitbucket.org/%s/src/tip/' % project
BaseUrl(project) == s_http \o project \o s_srctip

\* onlynode = addnodes.only(expr='html')
\* onlynode += nodes.reference(reftitle=..., refuri=...)
\* onlynode[0] += nodes.inline('', text, *kids, classes=...)
\* nodes.inline adds a Text child for a non-empty text argument.
\* The result is the tree with the new nodes; the only node is Len(t) + 1.
MakeLink(t, reftitle, refuri, text, kids, classes) ==
    LET n == Len(t)
        textkids == IF text = "" THEN <<>>
                    ELSE <<[Elem("#text") EXCEPT !.text = text]>>
        allkids == textkids \o kids
        onlynode == [Elem("only") EXCEPT !.expr = "html"]
        reference == [Elem("reference") EXCEPT !.reftitle = reftitle,
                                               !.refuri = refuri]
        inline == [Elem("inline") EXCEPT
                     !.classes = classes,
                     !.children = [k \in 1..Len(allkids) |-> n + 3 + k]]
        t1 == t \o <<onlynode, reference>>
        t2 == AppendChild(t1, n + 1, n + 2)
        t3 == (t2 \o <<inline>>) \o allkids
    IN  AppendChild(t3, n + 2, n + 3)

(***************************************************************************)
(* doctree_read: the "edit this page" link                                 *)
(***************************************************************************)
\* Variant: the first child is tested instead of the last
TailIsEditSection_First(t) ==
    "edit-section" \in t[t[Root].children[1]].classes

\* 'edit-section' in doctree[-1].attributes['classes']
TailIsEditSection(t) ==
    "edit-section" \in t[t[Root].children[Len(t[Root].children)]].classes

\* Lines 90-106, entered when the document path does not match the skip
\* regex and the document has a last child.
PageEditPass(t, cfg, url, doc_root, doc_path) ==
    LET path == (url \o doc_root) \o doc_path
        t1 == MakeLink(t, cfg.help_message, path, cfg.page_message, <<>>,
                       {"edit-on-bitbucket"})
        onlynode == Len(t) + 1
        para == Len(t1) + 1
        t2 == AddClass(Append(t1, Elem("paragraph")), para,
                       "edit-on-bitbucket-para")
        t3 == AppendChild(t2, para, onlynode)
    IN  IF TailIsEditSection(t)
        THEN AppendChild(t3, t[Root].children[Len(t[Root].children)], para)
        ELSE LET section == Len(t3) + 1
                 t4 == AddClass(Append(t3, Elem("section")), section,
                                "edit-section")
                 t5 == AppendChild(t4, section, para)
             IN  AppendChild(t5, Root, section)

(***************************************************************************)
(* doctree_read: the docstring links                                       *)
(***************************************************************************)
\* Variant: the isinstance test is missing
SkipSignode_AnyChild(node, names) ==
    \/ node.module = <<>>
    \/ node.fullname \in names

\* The three `continue` tests of the signature loop (lines 114-122)
SkipSignode(node, names) ==
    \/ node.tag # "desc_signature"
    \/ node.module = <<>>
    \/ node.fullname \in names

\* Variant: the name is not recorded
NamesAdd_Forget(names, fullname) == names

\* names.add(fullname)
NamesAdd(names, fullname) == names \cup {fullname}

\* '%s%s%s.py%s' % (url, source_root, modname.replace('.', '/'), anchor)
DocstringPath(url, source_root, modname, anchor) ==
    (((url \o source_root) \o ReplaceDots(modname)) \o s_py) \o anchor

\* Lines 124-144 for one signature node that was not skipped
LinkSignode(t, signode, cfg, url, source_root) ==
    LET modname == t[signode].module
        obj == import_object(modname, t[signode].fullname)
        anchor == Anchor(obj)
    IN  IF anchor # <<>>
        THEN LET raw == [Elem("raw") EXCEPT !.text = "&nbsp;",
                                            !.format = "html"]
                 text == [Elem("#text") EXCEPT
                            !.text = cfg.docstring_message]
                 t1 == MakeLink(t, cfg.help_message,
                                DocstringPath(url, source_root, modname, anchor),
                                "", <<raw, text>>,
                                {"edit-on-bitbucket", "viewcode-link"})
             IN  AppendChild(t1, signode, Len(t) + 1)
        ELSE t

\* for signode in objnode: ... (lines 113-144)
RECURSIVE SignodeLoop(_, _, _, _, _, _)
SignodeLoop(t, kids, names, cfg, url, source_root) ==
    IF kids = <<>> THEN t
    ELSE IF SkipSignode(t[Head(kids)], names)
         THEN SignodeLoop(t, Tail(kids), names, cfg, url, source_root)
    ELSE SignodeLoop(LinkSignode(t, Head(kids), cfg, url, source_root),
                     Tail(kids),
                     NamesAdd(names, t[Head(kids)].fullname),
                     cfg, url, source_root)

\* for objnode in doctree.traverse(addnodes.desc): ... (lines 109-112)
RECURSIVE ObjnodeLoop(_, _, _, _, _)
ObjnodeLoop(t, objs, cfg, url, source_root) ==
    IF objs = <<>> THEN t
    ELSE IF t[Head(objs)].domain # "py"
         THEN ObjnodeLoop(t, Tail(objs), cfg, url, source_root)
    ELSE ObjnodeLoop(SignodeLoop(t, t[Head(objs)].children, {}, cfg, url,
                                 source_root),
                     Tail(objs), cfg, url, source_root)

DocstringPass(t, cfg, url, source_root) ==
    ObjnodeLoop(t,
                SelectSeq(Traverse(t, Root), LAMBDA n : t[n].tag = "desc"),
                cfg, url, source_root)

(***************************************************************************)
(* doctree_read(app, doctree): the tree it leaves and the exception it     *)
(* raises ("" when it returns normally)                                    *)
(***************************************************************************)
\* Variant: the project is compared with the empty string
ProjectUnset_Empty(cfg) == cfg.project = <<>>

\* app.config.edit_on_bitbucket_project == 'REQUIRED'
ProjectUnset(cfg) == cfg.project = REQUIRED

\* Variant: the path is compared with the pattern literally
SkipPage_Literal(cfg, doc_path) == cfg.skip_regex = doc_path

\* re.match(app.config.edit_on_bitbucket_skip_regex, doc_path)
SkipPage(cfg, doc_path) == ReMatch(cfg.skip_regex, doc_path)

doctree_read(cfg, srcdir, t) ==
    IF ProjectUnset(cfg)
    THEN [tree |-> t, raised |-> "ValueError"]
    ELSE LET source_root == AddSlash(cfg.source_root)
             doc_root == AddSlash(cfg.doc_root)
             url == BaseUrl(cfg.project)
             doc_path == RelPath(t[Root].source, srcdir)
         IN  IF SkipPage(cfg, doc_path)
             THEN [tree |-> DocstringPass(t, cfg, url, source_root),
                   raised |-> ""]
             ELSE IF t[Root].children = <<>>
                  THEN \* doctree[-1] on a document without children
                       [tree |-> t, raised |-> "IndexError"]
             ELSE [tree |-> DocstringPass(
                              PageEditPass(t, cfg, url, doc_root, doc_path),
                              cfg, url, source_root),
                   raised |-> ""]

(***************************************************************************)
(* The host (Sphinx) and the state of one build                            *)
(***************************************************************************)
VARIABLES
    config_values,  \* options registered by add_config_value: name -> default
    listeners,      \* callbacks registered by app.connect: <<event, handler>>
    conf_py,        \* the values the project's conf.py assigns
    doctree,        \* the document tree handed to doctree_read
    pre,            \* the tree as it was when doctree_read was last entered
    raised,         \* the exception the last doctree_read raised, or ""
    calls           \* invocations of doctree_read on this tree

vars == <<config_values, listeners, conf_py, doctree, pre, raised, calls>>

NoValues == [name \in {} |-> name]

\* app.builder.srcdir
SrcDir == <<"/", "w">>

\* app.config: a conf.py assignment wins over the registered default
AppConfig(registered, conf) ==
    [name \in DOMAIN registered |->
        IF name \in DOMAIN conf THEN conf[name] ELSE registered[name].default]

\* The defaults setup() passes to app.add_config_value
SetupDefaults ==
    [project |-> REQUIRED,
     source_root |-> s_lib,
     doc_root |-> s_doc,
     docstring_message |-> "[bitbucket]",
     page_message |-> "[edit this page on bitbucket]",
     help_message |-> "Push the Edit button on the next page",
     skip_regex |-> s_skip]

(***************************************************************************)
(* Inputs: conf.py files, documents                                        *)
(***************************************************************************)
ProjectChoices == {NoValues, "project" :> <<"u", "/", "p">>}
SourceRootChoices == {NoValues, "source_root" :> <<>>,
                      "source_root" :> <<"l", "/">>}
DocRootChoices == {NoValues, "doc_root" :> <<>>,
                   "doc_root" :> <<"d", "o", "c", "/">>}
SkipRegexChoices == {NoValues, "skip_regex" :> <<"d", "/", ".", "*">>}

Sources ==
    { <<"/","w","/","a",".","r","s","t">>,
      <<"/","w","/","_","t",".","r","s","t">>,
      <<"/","w","/","d","/","b",".","r","s","t">>,
      <<"/","x","/","c",".","r","s","t">> }

Doc(kids) == [Elem("document") EXCEPT !.children = kids]
Section(classes, kids) ==
    [Elem("section") EXCEPT !.classes = classes, !.children = kids]
Desc(domain, kids) ==
    [Elem("desc") EXCEPT !.domain = domain, !.children = kids]
Sig(module, fullname) ==
    [Elem("desc_signature") EXCEPT !.module = module, !.fullname = fullname]
Content(module, fullname, kids) ==
    [Elem("desc_content") EXCEPT !.module = module, !.fullname = fullname,
                                 !.children = kids]

\* A document with no content
TreeEmpty == <<Doc(<<>>)>>

\* A section and a class description: a function documented with two
\* signatures of the same name, a submodule, and in the class body the same
\* method described twice plus a description of another domain.
TreeApi ==
    << Doc(<<2, 3>>),
       Section({}, <<>>),
       Desc("py", <<4, 5, 6, 7>>),
       Sig(<<"m">>, <<"f">>),
       Sig(<<"m">>, <<"f">>),
       Sig(<<"p">>, <<"m">>),
       Content(<<>>, <<>>, <<8, 9, 10>>),
       Desc("py", <<11>>),
       Desc("py", <<12>>),
       Desc("c", <<13>>),
       Sig(<<"m">>, <<"C", ".", "g">>),
       Sig(<<"m">>, <<"C", ".", "g">>),
       Sig(<<"m">>, <<"f">>) >>

\* An author-made 'edit-section' that is not the last child, and a
\* description whose signatures mostly cannot be resolved.
TreeMixed ==
    << Doc(<<2, 3, 4>>),
       Section({"edit-section"}, <<>>),
       Desc("py", <<5, 6, 7, 8, 9, 10, 11, 12, 13, 14>>),
       Elem("paragraph"),
       Sig(<<>>, <<"f">>),
       Sig(<<"m">>, <<"x">>),
       Sig(<<"b", "a", "d">>, <<"h">>),
       Sig(<<"m">>, <<"n", "o", "p", "e">>),
       Sig(<<"p", ".", "m">>, <<"f">>),
       Content(<<"m">>, <<"C">>, <<>>),
       Sig(<<"m">>, <<>>),
       Sig(<<"m">>, <<"C">>),
       Sig(<<"b", "a", "d">>, <<"C", ".", "g">>),
       Sig(<<"m">>, <<"C", ".", "g">>) >>

\* A document that already ends in an edit section
TreeEdited ==
    << Doc(<<2, 3>>),
       Section({}, <<>>),
       Section({"edit-section"}, <<4>>),
       Elem("paragraph") >>

Trees == {TreeEmpty, TreeApi, TreeMixed, TreeEdited}

(***************************************************************************)
(* Actions                                                                 *)
(***************************************************************************)
Init ==
    /\ config_values = NoValues
    /\ listeners = {}
    /\ \E p \in ProjectChoices, s \in SourceRootChoices,
          d \in DocRootChoices, r \in SkipRegexChoices :
          conf_py = ((p @@ s) @@ d) @@ r
    /\ doctree = <<>>
    /\ pre = <<>>
    /\ raised = ""
    /\ calls = 0

\* setup(app)
Setup ==
    /\ listeners = {}
    /\ config_values' =
          [name \in DOMAIN SetupDefaults |->
              [default |-> SetupDefaults[name], rebuild |-> TRUE]]
    /\ listeners' = listeners \cup {<<"doctree-read", "doctree_read">>}
    /\ UNCHANGED <<conf_py, doctree, pre, raised, calls>>

\* The host parses one source file into a document tree
ReadDoc ==
    /\ listeners # {}
    /\ doctree = <<>>
    /\ \E t \in Trees, src \in Sources :
          doctree' = [t EXCEPT ![Root].source = src]
    /\ UNCHANGED <<config_values, listeners, conf_py, pre, raised, calls>>

\* The host emits 'doctree-read'; an exception aborts the build
DoctreeRead ==
    /\ <<"doctree-read", "doctree_read">> \in listeners
    /\ doctree # <<>>
    /\ raised = ""
    /\ calls < MaxCalls
    /\ LET r == doctree_read(AppConfig(config_values, conf_py), SrcDir, doctree)
       IN  /\ doctree' = r.tree
           /\ raised' = r.raised
    /\ pre' = doctree
    /\ calls' = calls + 1
    /\ UNCHANGED <<config_values, listeners, conf_py>>

Next == Setup \/ ReadDoc \/ DoctreeRead

Spec == Init /\ [][Next]_vars

(***************************************************************************)
(* Vocabulary of the properties.  `pre` and `doctree` are the tree before  *)
(* and after the last invocation once calls > 0.  Expected values are      *)
(* written out per input, not computed with the operators above.           *)
(***************************************************************************)
Cfg == AppConfig(config_values, conf_py)
Called == calls > 0
ValidProject == Cfg.project # REQUIRED

Range(f) == {f[i] : i \in DOMAIN f}
IsPrefix(a, b) == Len(a) <= Len(b) /\ SubSeq(b, 1, Len(a)) = a
InTree(t) == Range(Traverse(t, Root))
OldIds == 1..Len(pre)
NewIds == (Len(pre) + 1)..Len(doctree)
ParentOf(t, n) ==
    IF \E q \in 1..Len(t) : n \in Range(t[q].children)
    THEN CHOOSE q \in 1..Len(t) : n \in Range(t[q].children)
    ELSE 0
EditSections(t) == {n \in InTree(t) : "edit-section" \in t[n].classes}

\* The document path relative to the source directory /w
ExpectedDocPath ==
    LET src == pre[Root].source
    IN  IF src = <<"/","w","/","a",".","r","s","t">>
        THEN <<"a",".","r","s","t">>
        ELSE IF src = <<"/","w","/","_","t",".","r","s","t">>
        THEN <<"_","t",".","r","s","t">>
        ELSE IF src = <<"/","w","/","d","/","b",".","r","s","t">>
        THEN <<"d","/","b",".","r","s","t">>
        ELSE <<".",".","/","x","/","c",".","r","s","t">>

\* The document path matches the configured skip regex ('_.*' or 'd/.*')
PathSkipped ==
    \/ Cfg.skip_regex = <<"_",".","*">> /\ ExpectedDocPath[1] = "_"
    \/ /\ Cfg.skip_regex = <<"d","/",".","*">>
       /\ ExpectedDocPath[1] = "d"
       /\ ExpectedDocPath[2] = "/"

\* A configured root with its trailing '/'
ExpectedRoot(r) ==
    IF r = <<>> THEN <<>>
    ELSE IF r = <<"l","i","b">> \/ r = <<"l","i","b","/">>
    THEN <<"l","i","b","/">>
    ELSE IF r = <<"d","o","c">> \/ r = <<"d","o","c","/">>
    THEN <<"d","o","c","/">>
    ELSE <<"l","/">>

ExpectedUrl ==
    <<"h","t","t","p",":","/","/","b","i","t","b","u","c","k","e","t",".",
      "o","r","g","/">> \o Cfg.project \o <<"/","s","r","c","/","t","i","p","/">>

\* reference nodes of page-edit links: their inline carries only the class
\* 'edit-on-bitbucket'
PageRefs(t) ==
    {n \in InTree(t) :
        /\ t[n].tag = "reference"
        /\ \E k \in Range(t[n].children) :
              t[k].tag = "inline" /\ t[k].classes = {"edit-on-bitbucket"}}

\* C1: with the project left at 'REQUIRED', doctree_read raises ValueError
\* for every document tree and leaves the tree exactly as it was.
C1_SentinelRaisesBeforeMutation ==
    (Called /\ Cfg.project = REQUIRED) =>
        (raised = "ValueError" /\ doctree = pre)

C1_Witness ==
    /\ Called
    /\ Cfg.project = REQUIRED
    /\ raised = "ValueError"
    /\ Len(pre) > 1

\* C2: with a valid project and a path that does not match the skip regex,
\* one invocation appends exactly one page-edit link, whose URL is the base
\* URL, the doc root with its trailing '/', and the relative document path.
C2_OnePageLinkWithUrl ==
    (Called /\ ValidProject /\ ~PathSkipped) =>
        /\ Cardinality(PageRefs(doctree) \ PageRefs(pre)) = 1
        /\ \A n \in PageRefs(doctree) \ PageRefs(pre) :
              doctree[n].refuri =
                 (ExpectedUrl \o ExpectedRoot(Cfg.doc_root)) \o ExpectedDocPath

\* C3: with a path that matches the skip regex, no page-edit link is
\* appended: no edit-section is created, no paragraph is added to an
\* existing edit-section, and the top-level children are unchanged.
C3_SkippedPathNoPageLink ==
    (Called /\ PathSkipped) =>
        /\ PageRefs(doctree) = PageRefs(pre)
        /\ EditSections(doctree) = EditSections(pre)
        /\ \A n \in EditSections(pre) : doctree[n].children = pre[n].children
        /\ \A n \in NewIds : doctree[n].tag \notin {"section", "paragraph"}
        /\ doctree[Root].children = pre[Root].children

C3_Witness ==
    /\ Called
    /\ ValidProject
    /\ PathSkipped
    /\ raised = ""
    /\ doctree # pre
    /\ EditSections(pre) # {}

\* C6: the sentinel project is the only fatal condition: with any other
\* project, doctree_read returns normally for every document tree, the
\* tree without children included.
C6_OnlySentinelIsFatal ==
    (Called /\ ValidProject) => raised = ""

\* C7: setup registers exactly the seven documented options with the
\* documented defaults and connects doctree_read to 'doctree-read'.
C7_DocumentedDefaults ==
    listeners # {} =>
        /\ listeners = {<<"doctree-read", "doctree_read">>}
        /\ DOMAIN config_values =
              {"project", "source_root", "doc_root", "docstring_message",
               "page_message", "help_message", "skip_regex"}
        /\ config_values["project"].default = <<"R","E","Q","U","I","R","E","D">>
        /\ config_values["source_root"].default = <<"l","i","b">>
        /\ config_values["doc_root"].default = <<"d","o","c">>
        /\ config_values["docstring_message"].default = "[edit on bitbucket]"
        /\ config_values["page_message"].default =
              "[edit this page on bitbucket]"
        /\ config_values["help_message"].default =
              "Push the Edit button on the next page"
        /\ config_values["skip_regex"].default = <<"_",".","*">>

(***************************************************************************)
(* Docstring links                                                         *)
(***************************************************************************)
\* The link nodes the last invocation attached to node n of the old tree
NewLinks(n) ==
    {c \in Range(doctree[n].children) :
        c \in NewIds /\ doctree[c].tag = "only"}

LinkUrl(c) == doctree[doctree[c].children[1]].refuri

\* n is a signature node of a python-domain described-object node
PySignode(n) ==
    /\ pre[n].tag = "desc_signature"
    /\ ParentOf(pre, n) # 0
    /\ pre[ParentOf(pre, n)].tag = "desc"
    /\ pre[ParentOf(pre, n)].domain = "py"

\* The source line of the symbol in the runtime described above, as the
\* decimal string of the anchor; empty when the symbol cannot be resolved
ExpectedLine(module, fullname) ==
    IF module = <<"m">> /\ fullname = <<"f">> THEN <<"7">>
    ELSE IF module = <<"m">> /\ fullname = <<"C">> THEN <<"1", "2">>
    ELSE IF module = <<"m">> /\ fullname = <<"C", ".", "g">> THEN <<"1", "5">>
    ELSE IF module = <<"p">> /\ fullname = <<"m">> THEN <<"0">>
    ELSE IF module = <<"p", ".", "m">> /\ fullname = <<"f">> THEN <<"3">>
    ELSE <<>>

Resolvable(n) == ExpectedLine(pre[n].module, pre[n].fullname) # <<>>

ExpectedModPath(module) ==
    IF module = <<"p", ".", "m">> THEN <<"p", "/", "m">> ELSE module

ExpectedDocstringUrl(n) ==
    (((ExpectedUrl \o ExpectedRoot(Cfg.source_root))
        \o ExpectedModPath(pre[n].module))
        \o <<".", "p", "y", "#", "c", "l", "-">>)
        \o ExpectedLine(pre[n].module, pre[n].fullname)

\* Position of n among the children of its parent
ChildIndex(t, n) ==
    CHOOSE i \in DOMAIN t[ParentOf(t, n)].children :
        t[ParentOf(t, n)].children[i] = n

\* No earlier signature child of the same described-object node, with a
\* module attribute, carries the fullname of n
FirstOfName(n) ==
    \A o \in OldIds :
        ~ /\ ParentOf(pre, o) = ParentOf(pre, n)
          /\ ChildIndex(pre, o) < ChildIndex(pre, n)
          /\ pre[o].tag = "desc_signature"
          /\ pre[o].module # <<>>
          /\ pre[o].fullname = pre[n].fullname

\* C4 as stated: every python signature whose symbol resolves to line N
\* gets a link to <url><source root>/<module path>.py#cl-N; every signature
\* whose symbol does not resolve gets none, and no error propagates.
C4_EveryResolvableSignatureLinked ==
    (Called /\ ValidProject) =>
        \A n \in OldIds :
            PySignode(n) =>
                /\ raised = ""
                /\ IF Resolvable(n)
                   THEN \E c \in NewLinks(n) :
                           LinkUrl(c) = ExpectedDocstringUrl(n)
                   ELSE NewLinks(n) = {}

\* C4 amended: the link is attached to every resolvable python signature
\* that is the first signature of its described-object node to carry its
\* fullname; unresolvable signatures get no link and nothing is raised.
C4_FirstResolvableSignatureLinked ==
    (Called /\ ValidProject) =>
        \A n \in OldIds :
            PySignode(n) =>
                /\ raised = ""
                /\ (Resolvable(n) /\ FirstOfName(n)) =>
                      \E c \in NewLinks(n) :
                         LinkUrl(c) = ExpectedDocstringUrl(n)
                /\ ~Resolvable(n) => NewLinks(n) = {}

C4_Witness ==
    /\ Called
    /\ ValidProject
    /\ raised = ""
    /\ \E n \in OldIds :
          /\ PySignode(n) /\ Resolvable(n) /\ FirstOfName(n)
          /\ pre[n].module = <<"p", ".", "m">>
          /\ NewLinks(n) # {}
    /\ \E n \in OldIds :
          /\ PySignode(n) /\ ~Resolvable(n)
          /\ pre[n].module # <<>>
          /\ NewLinks(n) = {}

\* C8 as stated: in one invocation at most one docstring link is attached
\* per fully-qualified name across the whole tree.
C8_OneLinkPerNameInTree ==
    Called =>
        \A n1 \in OldIds, n2 \in OldIds :
            (/\ PySignode(n1) /\ PySignode(n2)
             /\ pre[n1].module = pre[n2].module
             /\ pre[n1].fullname = pre[n2].fullname
             /\ NewLinks(n1) # {} /\ NewLinks(n2) # {})
            => (n1 = n2 /\ Cardinality(NewLinks(n1)) = 1)

\* C8 amended: in one invocation at most one docstring link is attached per
\* fullname within each python-domain described-object node.
C8_OneLinkPerNameInObject ==
    Called =>
        \A n1 \in OldIds, n2 \in OldIds :
            (/\ PySignode(n1) /\ PySignode(n2)
             /\ ParentOf(pre, n1) = ParentOf(pre, n2)
             /\ pre[n1].fullname = pre[n2].fullname
             /\ NewLinks(n1) # {} /\ NewLinks(n2) # {})
            => (n1 = n2 /\ Cardinality(NewLinks(n1)) = 1)

C8_Witness ==
    /\ Called
    /\ raised = ""
    /\ \E n1 \in OldIds, n2 \in OldIds :
          /\ n1 # n2
          /\ PySignode(n1) /\ PySignode(n2)
          /\ ParentOf(pre, n1) = ParentOf(pre, n2)
          /\ pre[n1].module = pre[n2].module
          /\ pre[n1].fullname = pre[n2].fullname
          /\ Resolvable(n1)
          /\ Cardinality(NewLinks(n1)) = 1
          /\ NewLinks(n2) = {}

\* n is a child of a described-object node that must never get a link:
\* the object is not of the python domain, or n is not a signature node,
\* or n has no module attribute
NeverLinked(n) ==
    /\ ParentOf(pre, n) # 0
    /\ pre[ParentOf(pre, n)].tag = "desc"
    /\ \/ pre[ParentOf(pre, n)].domain # "py"
       \/ pre[n].tag # "desc_signature"
       \/ pre[n].module = <<>>

\* C9: no docstring link is attached to a signature of a described-object
\* node of another domain, to a child of a described-object node that is
\* not a signature, or to a signature without a module attribute.
C9_NoLinkOutsidePySignatures ==
    Called =>
        \A n \in OldIds :
            NeverLinked(n) => doctree[n].children = pre[n].children

C9_Witness ==
    /\ Called
    /\ ValidProject
    /\ raised = ""
    /\ \E n \in OldIds :
          /\ NeverLinked(n)
          /\ pre[n].tag # "desc_signature"
          /\ Resolvable(n)
    /\ \E n \in OldIds : NewLinks(n) # {}

(***************************************************************************)
(* Edit sections and the shape of the tree                                 *)
(***************************************************************************)
PreTail == pre[Root].children[Len(pre[Root].children)]

PreTailIsEditSection ==
    /\ pre[Root].children # <<>>
    /\ "edit-section" \in pre[PreTail].classes

C10_AppendOnly ==
    Called =>
        /\ Len(doctree) >= Len(pre)
        /\ \A n \in OldIds :
              /\ [doctree[n] EXCEPT !.children = pre[n].children] = pre[n]
              /\ ParentOf(doctree, n) = ParentOf(pre, n)
              /\ IsPrefix(pre[n].children, doctree[n].children)
              /\ \A i \in DOMAIN doctree[n].children :
                    i > Len(pre[n].children) =>
                       doctree[n].children[i] \in NewIds
              /\ doctree[n].children # pre[n].children =>
                    \/ n = Root
                    \/ PreTailIsEditSection /\ n = PreTail
                    \/ pre[n].tag = "desc_signature"

C10_Witness ==
    /\ calls >= 2
    /\ raised = ""
    /\ PreTailIsEditSection
    /\ doctree[PreTail].children # pre[PreTail].children
    /\ \E n \in OldIds :
          /\ pre[n].tag = "desc_signature"
          /\ pre[n].children # <<>>
          /\ Len(doctree[n].children) = Len(pre[n].children) + 1

====
